---------------------------- MODULE Spec2Model ----------------------------
(***************************************************************************)
(* State-machine model of src/auto_buy.py (tixcraft ticket bot).           *)
(*                                                                         *)
(* The page/browser driver and the OCR engine are the environment: every   *)
(* driver call that can time out or find nothing is a nondeterministic     *)
(* choice between its outcomes.  A Python exception is modelled by the     *)
(* jump to the handler that catches it; an exception no handler catches    *)
(* leaves run (pc = "raised").                                             *)
(*                                                                         *)
(* Strings the program computes with (price text, captcha code) are        *)
(* sequences of code points.  UI labels are only compared for identity and *)
(* are written as ASCII transliterations of the Chinese labels.            *)
(***************************************************************************)
EXTENDS Integers, Sequences, FiniteSets, TLC

VARIABLES
    pc,               \* position in the program
    idx,              \* index of the innermost running for-loop
    \* ---- configuration (argparse namespace handed to run) ----
    price_text, quantity, seconds, headless,
    pytesseract, Image,           \* module globals: TRUE = imported, FALSE = None
    \* ---- click_if_visible frame ----
    ret_to,           \* position the running click_if_visible returns to
    civ_text,         \* its argument text
    civ_result,       \* its last return value
    civ_obs,          \* what its last call did: [role, text] in none/ok/fail
    \* ---- select_price_and_quantity ----
    wanted_digits, selects, price_clicks, qty_selected,
    \* ---- fill_captcha_and_confirm locals ----
    user_code, target_input, captcha_img, crop_by_box, base, captcha_focused,
    \* ---- observations of fill_captcha_and_confirm ----
    asked,            \* number of operator prompts for the captcha code
    ocr_code,         \* user_code as the OCR stage left it
    shots,            \* screenshots taken (page or element)
    lookups,          \* captcha input / image lookups made
    ocr_calls,        \* calls of pytesseract.image_to_string
    recognized_from,  \* origin of the image handed to recognition
    elem_captured,    \* the captcha image element was screenshot successfully
    fills,            \* successful fills of the captcha code
    submits,          \* sequence of submissions made (Enter, click, form)
    tiers,            \* record of the confirmation tiers attempted / succeeded
    \* ---- navigate_purchase_flow ----
    nav_iter, progressed, nav_obs,
    \* ---- candidate selection ----
    candidates, best,
    \* ---- run / process boundary ----
    exc, raised_in, session_open, context_closed, browser_closed, phases,
    exit_status,      \* status the process ended with, -1 while it runs
    slept,            \* seconds slept by the countdown, -1 before it
    buy_obs,          \* what double_click_buy did: attempts, clicks, waits
    \* ---- nearest-image loop of fill_captcha_and_confirm ----
    inp_box, imgs,    \* bounding box of the input, boxes of the page's images
    min_d, nearest    \* least squared distance so far, position of its image

cfgv  == <<price_text, quantity, seconds, headless, pytesseract, Image>>
civv  == <<ret_to, civ_text, civ_result, civ_obs>>
spv   == <<wanted_digits, selects, price_clicks, qty_selected>>
capv  == <<user_code, target_input, captcha_img, crop_by_box, base, captcha_focused>>
obsv  == <<asked, ocr_code, shots, lookups, ocr_calls, recognized_from,
           elem_captured, fills, submits, tiers>>
navv  == <<nav_iter, progressed, nav_obs>>
pickv == <<candidates, best>>
finv  == <<exc, raised_in, session_open, context_closed, browser_closed, exit_status>>
buyv  == <<slept, buy_obs>>
nearv == <<inp_box, imgs, min_d, nearest>>
vars  == <<pc, idx, cfgv, civv, spv, capv, obsv, navv, pickv, finv, phases, buyv, nearv>>

-----------------------------------------------------------------------------
(* Characters and strings                                                  *)

IsDigit_NonZero(c) == c \in 49..57
IsDigit(c) == c \in 48..57
IsAlnum(c) == IsDigit(c) \/ c \in 65..90 \/ c \in 97..122
IsSpace(c) == c \in {9, 10, 13, 32}

\* "".join(ch for ch in value if ch.isdigit())   (line 21)
RECURSIVE normalize_digits(_)
normalize_digits(value) ==
    IF value = << >> THEN << >>
    ELSE (IF IsDigit(Head(value)) THEN <<Head(value)>> ELSE << >>)
         \o normalize_digits(Tail(value))

\* "".join(ch for ch in raw if ch.isalnum())   (line 342)
RECURSIVE KeepAlnum(_)
KeepAlnum(raw) ==
    IF raw = << >> THEN << >>
    ELSE (IF IsAlnum(Head(raw)) THEN <<Head(raw)>> ELSE << >>) \o KeepAlnum(Tail(raw))

\* str.strip(): leading and trailing whitespace removed
RECURSIVE LStrip(_)
LStrip(s) == IF s # << >> /\ IsSpace(Head(s)) THEN LStrip(Tail(s)) ELSE s
RECURSIVE RStrip(_)
RStrip(s) ==
    IF s # << >> /\ IsSpace(s[Len(s)]) THEN RStrip(SubSeq(s, 1, Len(s) - 1)) ELSE s
Strip(s) == RStrip(LStrip(s))

\* Python's str ordering: code point by code point, a proper prefix is smaller
RECURSIVE StrLess(_, _)
StrLess(a, b) ==
    IF b = << >> THEN FALSE
    ELSE IF a = << >> THEN TRUE
    ELSE IF Head(a) # Head(b) THEN Head(a) < Head(b)
    ELSE StrLess(Tail(a), Tail(b))

\* str(n) for n >= 0
RECURSIVE IntToStr(_)
IntToStr(n) ==
    IF n < 10 THEN <<48 + n>> ELSE IntToStr(n \div 10) \o <<48 + (n % 10)>>

\* Python's None where a string is expected (no code point is negative)
None == <<-1>>

SeqToSet(q) == { q[i] : i \in 1..Len(q) }

-----------------------------------------------------------------------------
(* Candidate selection (line 345)                                          *)

\* key=lambda s: (len(s), s): tuples compare by length first, then by the string
KeyLess_LengthOnly(a, b) == Len(a) < Len(b)
KeyLess(a, b) == Len(a) < Len(b) \/ (Len(a) = Len(b) /\ StrLess(a, b))

\* max() keeps the first element whose key no later element exceeds
RECURSIVE MaxFrom(_, _)
MaxFrom(cur, rest) ==
    IF rest = << >> THEN cur
    ELSE MaxFrom(IF KeyLess(cur, Head(rest)) THEN Head(rest) ELSE cur, Tail(rest))

\* max(candidates, key=lambda s: (len(s), s), default="")
PickBest(cands) == IF cands = << >> THEN << >> ELSE MaxFrom(Head(cands), Tail(cands))

-----------------------------------------------------------------------------
(* Inputs the model draws from                                             *)

\* --price: "", "2800", "VIP"
Prices == { << >>, <<50, 56, 48, 48>>, <<86, 73, 80>> }
\* --quantity
Quantities == {0, 2}
\* --seconds
SecondsSet == {-1, 3}
\* what the operator types at the captcha prompt: "", " ", " k7 "
OperatorLines == { << >>, <<32>>, <<32, 107, 55, 32>> }
\* captcha images, by what the OCR engine reads in their transforms
ImageKinds == {"blank", "clear", "upright_only", "threshold_dependent"}
\* select controls of the page: the value attribute and the inner text of each option
\*   values "0","1","2"  texts "-","A","B"
\*   values "a","b"      texts " 1 "," 2 "
\*   values None,"1"     texts "-","1"
SelectControls ==
    { [values |-> << <<48>>, <<49>>, <<50>> >>, texts |-> << <<45>>, <<65>>, <<66>> >>],
      [values |-> << <<97>>, <<98>> >>, texts |-> << <<32, 49, 32>>, <<32, 50, 32>> >>],
      [values |-> << None, <<49>> >>, texts |-> << <<45>>, <<49>> >>] }
MaxSelects == 2
SelectLists ==
    UNION { [1..n -> SelectControls] : n \in 0..MaxSelects }

-----------------------------------------------------------------------------
(* Exceptions                                                              *)

PhaseNames == {"dismiss_adblock_and_disclaimers", "double_click_buy",
               "select_price_and_quantity", "fill_captcha_and_confirm"}
OperatorAborts == {"KeyboardInterrupt", "EOFError"}

\* an exception that no handler of function fn catches: it leaves run
Raise(e, fn) ==
    /\ pc' = "raised"
    /\ exc' = e
    /\ raised_in' = fn
    /\ UNCHANGED <<session_open, context_closed, browser_closed, exit_status>>

-----------------------------------------------------------------------------
(* click_if_visible (lines 95-107)                                         *)

CivPcs == {"civ_role", "civ_text"}
NoCiv == [role |-> "none", text |-> "none"]

\* a call of click_if_visible(page, text, timeout) that returns to ret
CallCiv(text, ret) ==
    /\ pc' = "civ_role"
    /\ civ_text' = text
    /\ ret_to' = ret
    /\ civ_obs' = NoCiv
    /\ UNCHANGED civ_result

\* the caller has read the return value: the frame is gone
PopCiv ==
    /\ ret_to' = ""
    /\ civ_text' = ""
    /\ civ_result' = FALSE
    /\ civ_obs' = NoCiv

\* try: get_by_role("button", name=text).first.wait_for(visible); click
CivRoleReturns(outcome) == outcome = "ok"

CivRole ==
    /\ pc = "civ_role"
    /\ \E outcome \in {"ok", "wait_timeout", "click_failed"} :
         IF CivRoleReturns(outcome)
         THEN /\ civ_obs' = [civ_obs EXCEPT !.role = "ok"]
              /\ civ_result' = TRUE
              /\ pc' = ret_to
         ELSE /\ civ_obs' = [civ_obs EXCEPT !.role = "fail"]
              /\ civ_result' = civ_result
              /\ pc' = "civ_text"
    /\ UNCHANGED <<idx, cfgv, ret_to, civ_text, spv, capv, obsv, navv, pickv, finv, phases, buyv, nearv>>

\* except Exception: try: get_by_text(text, exact=True).first.click
\*                   except Exception: return False
CivTextReturn_AlwaysTrue(outcome) == TRUE
CivTextReturn(outcome) == outcome = "ok"

CivText ==
    /\ pc = "civ_text"
    /\ \E outcome \in {"ok", "failed"} :
         /\ civ_obs' = [civ_obs EXCEPT !.text = IF outcome = "ok" THEN "ok" ELSE "fail"]
         /\ civ_result' = CivTextReturn(outcome)
    /\ pc' = ret_to
    /\ UNCHANGED <<idx, cfgv, ret_to, civ_text, spv, capv, obsv, navv, pickv, finv, phases, buyv, nearv>>

-----------------------------------------------------------------------------
(* run, first part (lines 589-606)                                         *)

\* browser = launch(); context = browser.new_context(); page = context.new_page()
RunLaunch ==
    /\ pc = "run_launch"
    /\ \E outcome \in {"ok", "failed"} :
         IF outcome = "ok"
         THEN /\ pc' = "run_goto"
              /\ session_open' = TRUE
              /\ UNCHANGED <<exc, raised_in, context_closed, browser_closed, exit_status>>
         ELSE /\ pc' = "raised"
              /\ exc' = "Error"
              /\ raised_in' = "run"
              /\ UNCHANGED <<session_open, context_closed, browser_closed, exit_status>>
    /\ UNCHANGED <<idx, cfgv, civv, spv, capv, obsv, navv, pickv, phases, buyv, nearv>>

\* page.goto(HOMEPAGE, wait_until="domcontentloaded")
RunGoto ==
    /\ pc = "run_goto"
    /\ \E outcome \in {"ok", "failed"} :
         IF outcome = "ok"
         THEN /\ pc' = "dismiss"
              /\ idx' = 1
              /\ phases' = Append(phases, "dismiss")
              /\ UNCHANGED finv
         ELSE /\ Raise("Error", "run")
              /\ UNCHANGED <<idx, phases>>
    /\ UNCHANGED <<cfgv, civv, spv, capv, obsv, navv, pickv, buyv, nearv>>

\* dismiss_adblock_and_disclaimers (lines 110-116): three clicks, results ignored
DismissLabels == <<"WoYiYueDuBingLiaoJie", "QueRen", "ChongXinZhengLi">>

Dismiss ==
    /\ pc = "dismiss"
    /\ IF idx <= Len(DismissLabels)
       THEN /\ CallCiv(DismissLabels[idx], "dismiss")
            /\ idx' = idx + 1
       ELSE /\ pc' = "wait_user"
            /\ idx' = 0
            /\ PopCiv
    /\ UNCHANGED <<cfgv, spv, capv, obsv, navv, pickv, finv, phases, buyv, nearv>>

\* wait_for_user_prep_and_countdown (lines 152-155): input(), then sleep
Max(a, b) == IF a >= b THEN a ELSE b

\* time.sleep(max(0, seconds))   (line 155)
SleepDuration_Unclamped(secs) == secs
SleepDuration(secs) == Max(0, secs)

WaitForUserPrepAndCountdown ==
    /\ pc = "wait_user"
    /\ \E outcome \in {"enter"} \cup OperatorAborts :
         IF outcome = "enter"
         THEN /\ pc' = "dcb_primary"
              /\ idx' = 1
              /\ slept' = SleepDuration(seconds)
              /\ phases' = phases \o <<"operator_setup", "buy">>
              /\ UNCHANGED finv
         ELSE /\ Raise(outcome, "wait_for_user_prep_and_countdown")
              /\ idx' = idx
              /\ slept' = slept
              /\ phases' = Append(phases, "operator_setup")
    /\ UNCHANGED <<cfgv, civv, spv, capv, obsv, navv, pickv, buy_obs, nearv>>

-----------------------------------------------------------------------------
(* double_click_buy (lines 158-165)                                        *)

BuyRounds == 2
BuyWaitMs == 400
NoBuyObs == [primary |-> 0, primary_ok |-> 0, alt |-> 0, alt_ok |-> 0, waits |-> << >>]

\* for _ in range(2): clicked = click_if_visible(page, "LiJiGouPiao")
DcbPrimary ==
    /\ pc = "dcb_primary"
    /\ IF idx <= BuyRounds
       THEN /\ CallCiv("LiJiGouPiao", "dcb_primary_ret")
            /\ buy_obs' = [buy_obs EXCEPT !.primary = @ + 1]
            /\ UNCHANGED <<idx, phases>>
       ELSE /\ pc' = "run_progress"
            /\ idx' = 0
            /\ phases' = phases
            /\ UNCHANGED <<civv, buy_obs>>
    /\ UNCHANGED <<cfgv, spv, capv, obsv, navv, pickv, finv, slept, nearv>>

\* if not clicked: click_if_visible(page, "LiJiDingGou")
NeedsAlternative_Always(clicked) == TRUE
NeedsAlternative(clicked) == ~clicked

DcbPrimaryRet ==
    /\ pc = "dcb_primary_ret"
    /\ IF NeedsAlternative(civ_result)
       THEN /\ CallCiv("LiJiDingGou", "dcb_wait")
            /\ buy_obs' = [buy_obs EXCEPT !.alt = @ + 1,
                                          !.primary_ok = @ + (IF civ_result THEN 1 ELSE 0)]
       ELSE /\ pc' = "dcb_wait" /\ PopCiv
            /\ buy_obs' = [buy_obs EXCEPT !.primary_ok = @ + (IF civ_result THEN 1 ELSE 0)]
    /\ UNCHANGED <<idx, cfgv, spv, capv, obsv, navv, pickv, finv, phases, slept, nearv>>

\* page.wait_for_timeout(400)
DcbWait ==
    /\ pc = "dcb_wait"
    /\ pc' = "dcb_primary"
    /\ idx' = idx + 1
    /\ buy_obs' = [buy_obs EXCEPT
                      !.alt_ok = @ + (IF civ_text = "LiJiDingGou" /\ civ_result THEN 1 ELSE 0),
                      !.waits = Append(@, BuyWaitMs)]
    /\ PopCiv
    /\ UNCHANGED <<cfgv, spv, capv, obsv, navv, pickv, finv, phases, slept, nearv>>

\* run, lines 609-615: if "progress" not in page.url: page.goto(...), failure swallowed
RunProgress ==
    /\ pc = "run_progress"
    /\ \E outcome \in {"on_progress", "goto_ok", "goto_failed"} :
         /\ pc' = "sp_start"
         /\ phases' = Append(phases, "select")
    /\ buy_obs' = NoBuyObs      \* double_click_buy has returned: its record ends
    /\ UNCHANGED <<idx, cfgv, civv, spv, capv, obsv, navv, pickv, finv, slept, nearv>>

-----------------------------------------------------------------------------
(* select_price_and_quantity (lines 168-228)                               *)

\* if price_text: wanted_digits = normalize_digits(price_text)
SpStart ==
    /\ pc = "sp_start"
    /\ IF price_text # << >>
       THEN pc' = "sp_header" /\ wanted_digits' = normalize_digits(price_text)
       ELSE pc' = "sp_wait" /\ wanted_digits' = wanted_digits
    /\ UNCHANGED <<idx, cfgv, civv, selects, price_clicks, qty_selected,
                   capv, obsv, navv, pickv, finv, phases, buyv, nearv>>

\* header = page.locator("h4").filter(has_text=price_text); if header.count() > 0
SpHeader ==
    /\ pc = "sp_header"
    /\ \E count \in 0..1 : pc' = IF count > 0 THEN "sp_seat" ELSE "sp_any_price"
    /\ UNCHANGED <<idx, cfgv, civv, spv, capv, obsv, navv, pickv, finv, phases, buyv, nearv>>

\* the handler of lines 194-198 runs only when the try block raised
SkipsHandler_Never(clicked) == FALSE
SkipsHandler(clicked) == clicked

\* lines 177-182: scroll the header, scroll and click the category's first .seat-item
SpSeat ==
    /\ pc = "sp_seat"
    /\ \E outcome \in {"ok", "header_scroll_failed", "seat_scroll_failed", "click_failed"} :
         /\ price_clicks' = IF outcome = "ok" THEN Append(price_clicks, "seat_first")
                            ELSE price_clicks
         /\ pc' = IF SkipsHandler(outcome = "ok") THEN "sp_wait" ELSE "sp_except"
    /\ UNCHANGED <<idx, cfgv, civv, wanted_digits, selects, qty_selected,
                   capv, obsv, navv, pickv, finv, phases, buyv, nearv>>

\* lines 185-187: any_price = get_by_text(price_text).first; scroll it into view
SpAnyPrice ==
    /\ pc = "sp_any_price"
    /\ \E outcome \in {"ok", "scroll_failed"} :
         pc' = IF outcome = "ok" THEN "sp_adjacent" ELSE "sp_except"
    /\ UNCHANGED <<idx, cfgv, civv, spv, capv, obsv, navv, pickv, finv, phases, buyv, nearv>>

\* lines 188-190: parent.locator(".seat-item").first.click
SpAdjacent ==
    /\ pc = "sp_adjacent"
    /\ \E outcome \in {"ok", "click_failed"} :
         IF outcome = "ok"
         THEN pc' = "sp_wait" /\ price_clicks' = Append(price_clicks, "adjacent_seat")
         ELSE pc' = "sp_direct" /\ price_clicks' = price_clicks
    /\ UNCHANGED <<idx, cfgv, civv, wanted_digits, selects, qty_selected,
                   capv, obsv, navv, pickv, finv, phases, buyv, nearv>>

\* lines 191-193: except Exception: any_price.click
SpDirect ==
    /\ pc = "sp_direct"
    /\ \E outcome \in {"ok", "click_failed"} :
         IF outcome = "ok"
         THEN pc' = "sp_wait" /\ price_clicks' = Append(price_clicks, "price_text")
         ELSE pc' = "sp_except" /\ price_clicks' = price_clicks
    /\ UNCHANGED <<idx, cfgv, civv, wanted_digits, selects, qty_selected,
                   capv, obsv, navv, pickv, finv, phases, buyv, nearv>>

\* lines 194-198: except Exception: if wanted_digits: click the element matching the
\* digits.  This click runs inside the handler: nothing catches its failure.
SpExcept ==
    /\ pc = "sp_except"
    /\ IF wanted_digits # << >>
       THEN \E outcome \in {"ok", "click_failed"} :
              IF outcome = "ok"
              THEN /\ pc' = "sp_wait"
                   /\ price_clicks' = Append(price_clicks, "digits")
                   /\ UNCHANGED finv
              ELSE /\ Raise("TimeoutError", "select_price_and_quantity")
                   /\ price_clicks' = price_clicks
       ELSE pc' = "sp_wait" /\ UNCHANGED <<price_clicks, finv>>
    /\ UNCHANGED <<idx, cfgv, civv, wanted_digits, selects, qty_selected,
                   capv, obsv, navv, pickv, phases, buyv, nearv>>

\* lines 200-204: wait_for_timeout(300); if quantity and quantity > 0
SpWait ==
    /\ pc = "sp_wait"
    /\ pc' = IF quantity # 0 /\ quantity > 0 THEN "sq_selects" ELSE "sq_return"
    /\ UNCHANGED <<idx, cfgv, civv, spv, capv, obsv, navv, pickv, finv, phases, buyv, nearv>>

\* what step 8 did: the control (position in document order) and option it
\* selected, by value or by label, and whether a driver call failed on the way
NoSelection == [sel |-> 0, opt |-> 0, how |-> "none", failed |-> FALSE]

\* line 207: selects = page.locator("select").all()   (a failure ends step 8)
SqSelects ==
    /\ pc = "sq_selects"
    /\ \/ \E page_selects \in SelectLists :
            /\ selects' = page_selects
            /\ idx' = 1
            /\ pc' = "sq_scan"
            /\ qty_selected' = qty_selected
       \/ /\ pc' = "sq_return"
          /\ qty_selected' = [qty_selected EXCEPT !.failed = TRUE]
          /\ UNCHANGED <<selects, idx>>
    /\ UNCHANGED <<cfgv, civv, wanted_digits, price_clicks,
                   capv, obsv, navv, pickv, finv, phases, buyv, nearv>>

\* lines 209-218: values, stripped texts, target = str(quantity)
OptionValues(sel) == SeqToSet(sel.values)
OptionTexts(sel) == { Strip(sel.texts[i]) : i \in 1..Len(sel.texts) }
HasTarget_ValuesOnly(sel, target) == target \in OptionValues(sel)
HasTarget(sel, target) == target \in OptionValues(sel) \/ target \in OptionTexts(sel)

\* the option select_option picks: the first one with the value, or with the label
FirstByValue(sel, target) ==
    CHOOSE i \in 1..Len(sel.values) :
        sel.values[i] = target /\ \A j \in 1..(i - 1) : sel.values[j] # target
FirstByLabel(sel, target) ==
    CHOOSE i \in 1..Len(sel.texts) :
        Strip(sel.texts[i]) = target /\ \A j \in 1..(i - 1) : Strip(sel.texts[j]) # target

\* for sel in selects: if target in values or target in texts: ... break
SqScan ==
    /\ pc = "sq_scan"
    /\ IF idx > Len(selects)
       THEN pc' = "sq_return" /\ idx' = idx
       ELSE \/ /\ HasTarget(selects[idx], IntToStr(quantity))
               /\ pc' = "sq_by_value"
               /\ idx' = idx
            \/ /\ ~HasTarget(selects[idx], IntToStr(quantity))
               /\ pc' = "sq_scan"
               /\ idx' = idx + 1
            \/ \* opt.get_attribute("value") failed: except Exception: pass
               /\ pc' = "sq_return"
               /\ idx' = idx
    /\ qty_selected' = IF pc' = "sq_return" /\ idx <= Len(selects)
                       THEN [qty_selected EXCEPT !.failed = TRUE] ELSE qty_selected
    /\ UNCHANGED <<cfgv, civv, wanted_digits, selects, price_clicks,
                   capv, obsv, navv, pickv, finv, phases, buyv, nearv>>

\* lines 219-221: sel.select_option(target)
SqByValue ==
    /\ pc = "sq_by_value"
    /\ LET target == IntToStr(quantity) IN
       IF target \in OptionValues(selects[idx])
       THEN \E outcome \in {"ok", "failed"} :
              IF outcome = "ok"
              THEN /\ pc' = "sq_return"
                   /\ qty_selected' = [qty_selected EXCEPT !.sel = idx, !.how = "value",
                                           !.opt = FirstByValue(selects[idx], target)]
              ELSE /\ pc' = "sq_by_label"
                   /\ qty_selected' = [qty_selected EXCEPT !.failed = TRUE]
       ELSE \* no option has the value: select_option times out
            pc' = "sq_by_label" /\ qty_selected' = qty_selected
    /\ UNCHANGED <<idx, cfgv, civv, wanted_digits, selects, price_clicks,
                   capv, obsv, navv, pickv, finv, phases, buyv, nearv>>

\* lines 222-226: except Exception: sel.select_option(label=target); break
\* (a failure here is caught by the outer except Exception: pass)
SqByLabel ==
    /\ pc = "sq_by_label"
    /\ LET target == IntToStr(quantity) IN
       IF target \in OptionTexts(selects[idx])
       THEN \E outcome \in {"ok", "failed"} :
              qty_selected' =
                  IF outcome = "ok"
                  THEN [qty_selected EXCEPT !.sel = idx, !.how = "label",
                                            !.opt = FirstByLabel(selects[idx], target)]
                  ELSE [qty_selected EXCEPT !.failed = TRUE]
       ELSE qty_selected' = qty_selected
    /\ pc' = "sq_return"
    /\ UNCHANGED <<idx, cfgv, civv, wanted_digits, selects, price_clicks,
                   capv, obsv, navv, pickv, finv, phases, buyv, nearv>>

\* select_price_and_quantity returns to run, which calls fill_captcha_and_confirm
SqReturn ==
    /\ pc = "sq_return"
    /\ pc' = "fc_start"
    /\ idx' = 0
    /\ selects' = << >>
    /\ wanted_digits' = << >>
    /\ phases' = Append(phases, "captcha")
    /\ UNCHANGED <<cfgv, civv, price_clicks, qty_selected, capv, obsv, navv, pickv, finv, buyv, nearv>>

-----------------------------------------------------------------------------
(* fill_captcha_and_confirm, OCR stage (lines 231-355)                     *)

NoBase == [from |-> "none", img |-> "none"]

\* positions of the OCR stage (inside "if pytesseract and Image:")
OcrStagePcs == {"fc_before_shot", "fc_find_input", "fc_nearest", "fc_capture",
                "fc_img_box", "fc_fallback_region", "fc_full_shot", "fc_ocr",
                "fc_pick"}

\* line 236: if pytesseract and Image
OcrEnabled_Unguarded(tess, pil) == TRUE
OcrEnabled(tess, pil) == tess /\ pil

\* lines 235-236; the locals and observations of step 7-8 end with that call
FcStart ==
    /\ pc = "fc_start"
    /\ user_code' = << >>
    /\ pc' = IF OcrEnabled(pytesseract, Image) THEN "fc_before_shot" ELSE "fc_need_code"
    /\ price_clicks' = << >>
    /\ qty_selected' = NoSelection
    /\ UNCHANGED <<idx, cfgv, civv, wanted_digits, selects,
                   target_input, captcha_img, crop_by_box, base, captcha_focused,
                   obsv, navv, pickv, finv, phases, buyv, nearv>>

\* lines 240-243: page.screenshot("_before_captcha.png"), failure ignored
FcBeforeShot ==
    /\ pc = "fc_before_shot"
    /\ \E outcome \in {"ok", "failed"} : shots' = shots + 1
    /\ pc' = "fc_find_input"
    /\ idx' = 1
    /\ UNCHANGED <<cfgv, civv, spv, capv, asked, ocr_code, lookups, ocr_calls,
                   recognized_from, elem_captured, fills, submits, tiers,
                   navv, pickv, finv, phases, buyv, nearv>>

\* the four descriptors of input_candidates (lines 245-250, again 363-368)
InputCandidates == <<"placeholder", "name_captcha", "aria_label", "label">>

\* lines 252-260: for cand in input_candidates: wait_for(visible); break
\* target_input = 0 is None
FcFindInput ==
    /\ pc = "fc_find_input"
    /\ IF idx > Len(InputCandidates)
       THEN /\ pc' = "fc_nearest"
            /\ UNCHANGED <<idx, target_input, lookups>>
       ELSE /\ lookups' = lookups + 1
            /\ \E outcome \in {"visible", "timeout"} :
                 IF outcome = "visible"
                 THEN /\ target_input' = idx
                      /\ pc' = "fc_nearest"
                      /\ idx' = idx
                 ELSE /\ target_input' = 0
                      /\ pc' = "fc_find_input"
                      /\ idx' = idx + 1
    /\ UNCHANGED <<cfgv, civv, spv, user_code, captcha_img, crop_by_box, base,
                   captcha_focused, asked, ocr_code, shots, ocr_calls,
                   recognized_from, elem_captured, fills, submits, tiers,
                   navv, pickv, finv, phases, buyv, nearv>>

\* lines 262-287.  "nearest": an image with a bounding box was chosen by distance;
\* "none_near": the loop chose nothing, so line 285 takes the alt/title locator
\* (a locator is lazy: .first never fails and is never None);
\* "raised": scroll, bounding_box or all() failed, except Exception: pass
FcNearest ==
    /\ pc = "fc_nearest"
    /\ \E outcome \in {"nearest", "none_near", "raised"} :
         /\ outcome \in {"nearest", "raised"} => target_input # 0
         /\ captcha_img' = CASE outcome = "nearest" -> "nearest"
                              [] outcome = "none_near" -> "alt_title"
                              [] OTHER -> "None"
    /\ lookups' = lookups + 1
    /\ crop_by_box' = "None"
    /\ pc' = "fc_capture"
    /\ UNCHANGED <<idx, cfgv, civv, spv, user_code, target_input, base,
                   captcha_focused, asked, ocr_code, shots, ocr_calls,
                   recognized_from, elem_captured, fills, submits, tiers,
                   navv, pickv, finv, phases, buyv, nearv>>

\* lines 289-300: if captcha_img is not None: scroll, captcha_img.screenshot,
\* base = Image.open(...).convert("L"); crop_by_box = None
FcCapture ==
    /\ pc = "fc_capture"
    /\ IF captcha_img = "None"
       THEN /\ pc' = "fc_fallback_region"
            /\ UNCHANGED <<base, crop_by_box, shots, elem_captured>>
       ELSE /\ shots' = shots + 1
            /\ \/ \E img \in ImageKinds :
                    /\ base' = IF Image THEN [from |-> "element", img |-> img] ELSE base
                    /\ elem_captured' = TRUE
                    \* line 298, or line 300 (bounding_box) when Image is None
                    /\ crop_by_box' = IF Image THEN "None" ELSE "img_box"
                    /\ pc' = "fc_fallback_region"
               \/ \* scroll, screenshot or Image.open failed
                  /\ pc' = "fc_img_box"
                  /\ UNCHANGED <<base, crop_by_box, elem_captured>>
    /\ UNCHANGED <<idx, cfgv, civv, spv, user_code, target_input, captcha_img,
                   captcha_focused, asked, ocr_code, lookups, ocr_calls,
                   recognized_from, fills, submits, tiers, navv, pickv, finv, phases, buyv, nearv>>

\* lines 301-304: except Exception: box = captcha_img.bounding_box(); if box: ...
\* bounding_box itself may fail: that reaches the except of line 354
FcImgBox ==
    /\ pc = "fc_img_box"
    /\ \E outcome \in {"box", "no_box", "raised"} :
         /\ crop_by_box' = IF outcome = "box" THEN "img_box" ELSE crop_by_box
         /\ pc' = IF outcome = "raised" THEN "fc_ocr_except" ELSE "fc_fallback_region"
    /\ lookups' = lookups + 1
    /\ UNCHANGED <<idx, cfgv, civv, spv, user_code, target_input, captcha_img, base,
                   captcha_focused, asked, ocr_code, shots, ocr_calls,
                   recognized_from, elem_captured, fills, submits, tiers,
                   navv, pickv, finv, phases, buyv, nearv>>

\* line 306: if crop_by_box is None and target_input is not None
UseInputRegion(box, input) == box = "None" /\ input # 0

\* lines 306-320: the 200-wide rectangle left of the input box; then
\* if crop_by_box is not None: ... else: log
FcFallbackRegion ==
    /\ pc = "fc_fallback_region"
    /\ IF UseInputRegion(crop_by_box, target_input)
       THEN \E outcome \in {"box", "no_box", "raised"} :
              /\ crop_by_box' = IF outcome = "box" THEN "input_left" ELSE crop_by_box
              /\ pc' = IF outcome = "box" THEN "fc_full_shot" ELSE "fc_need_code"
       ELSE /\ crop_by_box' = crop_by_box
            /\ pc' = IF crop_by_box # "None" THEN "fc_full_shot" ELSE "fc_need_code"
    /\ UNCHANGED <<idx, cfgv, civv, spv, user_code, target_input, captcha_img, base,
                   captcha_focused, obsv, navv, pickv, finv, phases, buyv, nearv>>

\* lines 332, 337: the grid of transforms
Angles == <<-6, -4, -2, 0, 2, 4, 6>>
Thresholds == <<115, 160>>
GridSize == Len(Angles) * Len(Thresholds)
AngleOf(n) == Angles[((n - 1) \div Len(Thresholds)) + 1]
ThresholdOf(n) == Thresholds[((n - 1) % Len(Thresholds)) + 1]

\* pytesseract.image_to_string on the transform (angle, th) of an image:
\* "\n", "A 7\n", "A7\n", "B7\n"
EngineReads(img, angle, th) ==
    CASE img = "blank" -> <<10>>
      [] img = "clear" -> <<65, 32, 55, 10>>
      [] img = "upright_only" -> IF angle = 0 THEN <<65, 32, 55, 10>> ELSE <<10>>
      [] OTHER -> IF th = 115 THEN <<65, 55, 10>> ELSE <<66, 55, 10>>

\* lines 321-331: full-page screenshot, Image.open, crop to crop_by_box, convert
FcFullShot ==
    /\ pc = "fc_full_shot"
    /\ shots' = shots + 1
    /\ \/ \E img \in ImageKinds :
            /\ base' = [from |-> crop_by_box, img |-> img]
            /\ candidates' = << >>
            /\ idx' = 1
            /\ pc' = "fc_ocr"
       \/ \* page.screenshot or Image.open failed: except of line 354
          /\ pc' = "fc_ocr_except"
          /\ UNCHANGED <<base, candidates, idx>>
    /\ UNCHANGED <<cfgv, civv, spv, user_code, target_input, captcha_img, crop_by_box,
                   captcha_focused, asked, ocr_code, lookups, ocr_calls,
                   recognized_from, elem_captured, fills, submits, tiers,
                   navv, best, finv, phases, buyv, nearv>>

\* line 347 is reached when both for loops (lines 332, 337) have run out
LoopsDone_AfterFirst(n) == n > 1
LoopsDone(n) == n > GridSize

\* lines 332-349: one recognition per (angle, threshold), then the winner
FcOcr ==
    /\ pc = "fc_ocr"
    /\ IF ~LoopsDone(idx)
       THEN /\ ocr_calls' = ocr_calls + 1
            /\ recognized_from' = base.from
            /\ user_code' = user_code
            /\ \/ /\ candidates' = Append(candidates,
                          KeepAlnum(EngineReads(base.img, AngleOf(idx), ThresholdOf(idx))))
                  /\ idx' = idx + 1
                  /\ pc' = "fc_ocr"
               \/ \* image_to_string failed: except of line 354
                  /\ pc' = "fc_ocr_except"
                  /\ UNCHANGED <<candidates, idx>>
       ELSE /\ user_code' = PickBest(candidates)
            /\ pc' = "fc_need_code"
            /\ UNCHANGED <<ocr_calls, recognized_from, candidates, idx>>
    /\ UNCHANGED <<cfgv, civv, spv, target_input, captcha_img, crop_by_box, base,
                   captcha_focused, asked, ocr_code, shots, lookups,
                   elem_captured, fills, submits, tiers, navv, best, finv, phases, buyv, nearv>>

\* lines 354-355: except Exception: log(...)
FcOcrExcept ==
    /\ pc = "fc_ocr_except"
    /\ pc' = "fc_need_code"
    /\ UNCHANGED <<idx, cfgv, civv, spv, capv, obsv, navv, pickv, finv, phases, buyv, nearv>>

-----------------------------------------------------------------------------
(* fill_captcha_and_confirm, operator prompt and fill (lines 357-385)      *)

\* line 357: if not user_code
NeedOperator_Always(code) == TRUE
NeedOperator(code) == code = << >>

NoTiers == [fields |-> << >>, tried |-> << >>, label |-> 0, clicks |-> 0,
            text |-> "none", keyword |-> "none", debug |-> "none", form |-> "none"]

\* lines 357-360: user_code = input(...).strip().  The locals of the OCR stage are
\* not read again, and its observations end with it.
FcNeedCode ==
    /\ pc = "fc_need_code"
    /\ ocr_code' = user_code
    /\ IF NeedOperator(user_code)
       THEN /\ asked' = asked + 1
            /\ \/ \E line \in OperatorLines :
                    /\ user_code' = Strip(line)
                    /\ pc' = IF Strip(line) # << >> THEN "fc_fill" ELSE "fc_terms"
                    /\ UNCHANGED finv
               \/ \E abort \in OperatorAborts :
                    /\ Raise(abort, "fill_captcha_and_confirm")
                    /\ user_code' = user_code
       ELSE /\ asked' = asked
            /\ user_code' = user_code
            /\ pc' = "fc_fill"
            /\ UNCHANGED finv
    /\ idx' = 1
    /\ target_input' = 0
    /\ captcha_img' = "None"
    /\ crop_by_box' = "None"
    /\ base' = NoBase
    /\ candidates' = << >>
    /\ shots' = 0
    /\ lookups' = 0
    /\ ocr_calls' = 0
    /\ recognized_from' = "none"
    /\ elem_captured' = FALSE
    /\ UNCHANGED <<cfgv, civv, spv, captcha_focused, fills, submits, tiers,
                   navv, best, phases, buyv, nearv>>

\* lines 374-377: filled = True; break, and the fallback of lines 378-385 is the
\* last field there is: no field is tried after a fill or after the fallback
FillDone_AfterAll(outcome, i) == i > Len(InputCandidates)
FillDone(outcome, i) == outcome = "filled" \/ i > Len(InputCandidates)

\* lines 363-385: the four captcha descriptors in order, then the first input of
\* the page; captcha_focused = 0 is None, 5 is the generic first input.
\* tiers.fields lists the fields fill was called on.
FcFill ==
    /\ pc = "fc_fill"
    /\ \E outcome \in {"filled", "failed"} :
         /\ IF outcome = "filled"
            THEN /\ captcha_focused' = idx
                 /\ fills' = fills + 1
            ELSE UNCHANGED <<captcha_focused, fills>>
         /\ IF FillDone(outcome, idx)
            THEN pc' = "fc_terms" /\ idx' = 1
            ELSE pc' = "fc_fill" /\ idx' = idx + 1
    /\ tiers' = [tiers EXCEPT !.fields = Append(@, idx)]
    /\ UNCHANGED <<cfgv, civv, spv, user_code, target_input, captcha_img, crop_by_box,
                   base, asked, ocr_code, shots, lookups, ocr_calls, recognized_from,
                   elem_captured, submits, navv, pickv, finv, phases, buyv, nearv>>

-----------------------------------------------------------------------------
(* agree_terms_if_present (lines 41-80), called at line 390                *)

\* lines 43-57: the role=checkbox; "checked" returns, anything else (already
\* checked, not attached, check failed) goes on to the labels
AgreeRole ==
    /\ pc = "fc_terms"
    /\ \E outcome \in {"checked", "was_checked", "failed"} :
         pc' = IF outcome = "checked" THEN "fc_enter" ELSE "fc_terms_label"
    /\ idx' = 1
    /\ UNCHANGED <<cfgv, civv, spv, capv, obsv, navv, pickv, finv, phases, buyv, nearv>>

TermsLabels == <<"WoYiXiangXiYueDuQieTongYi", "HuiYuanFuWuTiaoKuan", "TongYi">>

\* lines 60-71: for label_text in [...]: get_by_label(...).first.check; return
AgreeLabel ==
    /\ pc = "fc_terms_label"
    /\ IF idx > Len(TermsLabels)
       THEN pc' = "fc_terms_fallback" /\ idx' = idx
       ELSE \E outcome \in {"checked", "failed"} :
              IF outcome = "checked"
              THEN pc' = "fc_enter" /\ idx' = idx
              ELSE pc' = "fc_terms_label" /\ idx' = idx + 1
    /\ UNCHANGED <<cfgv, civv, spv, capv, obsv, navv, pickv, finv, phases, buyv, nearv>>

\* lines 74-80: the checkbox preceding the consent text, failure ignored
AgreeFallback ==
    /\ pc = "fc_terms_fallback"
    /\ \E outcome \in {"checked", "failed"} : pc' = "fc_enter"
    /\ UNCHANGED <<idx, cfgv, civv, spv, capv, obsv, navv, pickv, finv, phases, buyv, nearv>>

-----------------------------------------------------------------------------
(* fill_captcha_and_confirm, step 10 (lines 387-477)                       *)

\* lines 392-398: if captcha_focused is not None: press("Enter"), failure ignored
FcEnter ==
    /\ pc = "fc_enter"
    /\ IF captcha_focused # 0
       THEN \E outcome \in {"pressed", "failed"} :
              submits' = IF outcome = "pressed" THEN Append(submits, "enter") ELSE submits
       ELSE submits' = submits
    /\ pc' = "fc_labels"
    /\ idx' = 1
    /\ UNCHANGED <<cfgv, civv, spv, capv, asked, ocr_code, shots, lookups, ocr_calls,
                   recognized_from, elem_captured, fills, tiers, navv, pickv, finv, phases, buyv, nearv>>

\* lines 400-408
confirm_labels == <<"QueRenZhangShu", "QueRenShuLiang", "QueRen", "QueDing",
                    "SongChu", "XiaYiBu", "XiaYiBuZhou">>

\* lines 410-411: for label in confirm_labels: click_if_visible(page, label, 1000)
FcLabels ==
    /\ pc = "fc_labels"
    /\ IF idx <= Len(confirm_labels)
       THEN /\ CallCiv(confirm_labels[idx], "fc_label_ret")
            /\ tiers' = [tiers EXCEPT !.tried = Append(@, confirm_labels[idx])]
       ELSE /\ pc' = "fc_text_tier"                  \* the for's else branch
            /\ UNCHANGED <<civv, tiers>>
    /\ UNCHANGED <<idx, cfgv, spv, capv, asked, ocr_code, shots, lookups, ocr_calls,
                   recognized_from, elem_captured, fills, submits,
                   navv, pickv, finv, phases, buyv, nearv>>

\* line 413: break, inside "if click_if_visible(...)"
BreaksOnClick_Never(clicked) == FALSE
BreaksOnClick(clicked) == clicked

\* lines 411-413: if click_if_visible(...): log; break
FcLabelRet ==
    /\ pc = "fc_label_ret"
    /\ IF civ_result
       THEN /\ tiers' = [tiers EXCEPT !.label = idx, !.clicks = @ + 1]
            /\ submits' = Append(submits, "confirm_click")
       ELSE UNCHANGED <<tiers, submits>>
    /\ IF BreaksOnClick(civ_result)
       THEN pc' = "fc_debug" /\ idx' = idx
       ELSE pc' = "fc_labels" /\ idx' = idx + 1
    /\ PopCiv
    /\ UNCHANGED <<cfgv, spv, capv, asked, ocr_code, shots, lookups, ocr_calls,
                   recognized_from, elem_captured, fills, navv, pickv, finv, phases, buyv, nearv>>

\* lines 416-421: get_by_text("QueRenZhangShu", exact=False).first: scroll, click
FcTextTier ==
    /\ pc = "fc_text_tier"
    /\ \E outcome \in {"clicked", "failed"} :
         IF outcome = "clicked"
         THEN /\ tiers' = [tiers EXCEPT !.text = "clicked"]
              /\ submits' = Append(submits, "confirm_click")
              /\ pc' = "fc_debug"
         ELSE /\ tiers' = [tiers EXCEPT !.text = "failed"]
              /\ submits' = submits
              /\ pc' = "fc_keyword"
    /\ UNCHANGED <<idx, cfgv, civv, spv, capv, asked, ocr_code, shots, lookups, ocr_calls,
                   recognized_from, elem_captured, fills, navv, pickv, finv, phases, buyv, nearv>>

\* lines 422-445: scroll to the bottom, then the first button/link/input whose text
\* holds a confirmation keyword: scroll, click; failure ignored
FcKeyword ==
    /\ pc = "fc_keyword"
    /\ \E outcome \in {"clicked", "failed"} :
         IF outcome = "clicked"
         THEN /\ tiers' = [tiers EXCEPT !.keyword = "clicked"]
              /\ submits' = Append(submits, "confirm_click")
         ELSE /\ tiers' = [tiers EXCEPT !.keyword = "failed"]
              /\ submits' = submits
    /\ pc' = "fc_debug"
    /\ UNCHANGED <<idx, cfgv, civv, spv, capv, asked, ocr_code, shots, lookups, ocr_calls,
                   recognized_from, elem_captured, fills, navv, pickv, finv, phases, buyv, nearv>>

\* lines 447-452 and save_debug (28-38): screenshot and markup dump, both
\* best-effort; tiers.debug tells whether any of the two files was written
FcDebug ==
    /\ pc = "fc_debug"
    /\ \E png \in {"written", "failed"}, html \in {"written", "failed"} :
         tiers' = [tiers EXCEPT !.debug = IF "written" \in {png, html} THEN "written"
                                          ELSE "failed"]
    /\ pc' = "fc_form"
    /\ UNCHANGED <<idx, cfgv, civv, spv, capv, asked, ocr_code, shots, lookups, ocr_calls,
                   recognized_from, elem_captured, fills, submits, navv, pickv, finv, phases, buyv, nearv>>

\* lines 454-477: form = page.locator("form").first; scroll; click its submit
\* button, else page.evaluate(requestSubmit); on failure a screenshot, then return.
\*   no_form          the scroll failed: there is no form
\*   button_clicked   the form's submit button was clicked
\*   programmatic     the click failed, the script submitted the form
\*   not_submitted    the click failed, the script's catch(e){} swallowed the
\*                    failure of requestSubmit/submit and page.evaluate returned
\*   evaluate_failed  the click failed and page.evaluate raised
FormOutcomes == {"no_form", "button_clicked", "programmatic", "not_submitted",
                 "evaluate_failed"}

FcForm ==
    /\ pc = "fc_form"
    /\ \E outcome \in FormOutcomes :
         /\ tiers' = [tiers EXCEPT !.form = outcome]
         /\ submits' = CASE outcome = "button_clicked" -> Append(submits, "form_button")
                          [] outcome = "programmatic" -> Append(submits, "form_submit")
                          [] OTHER -> submits
    /\ pc' = "run_hold"
    /\ UNCHANGED <<idx, cfgv, civv, spv, capv, asked, ocr_code, shots, lookups, ocr_calls,
                   recognized_from, elem_captured, fills, navv, pickv, finv, phases, buyv, nearv>>

-----------------------------------------------------------------------------
(* run, last part (lines 623-629)                                          *)

\* if not headless: page.wait_for_timeout(600000); the operator may close the
\* window meanwhile, and the wait then fails
RunHold ==
    /\ pc = "run_hold"
    /\ IF ~headless
       THEN \/ pc' = "run_close" /\ UNCHANGED finv
            \/ Raise("Error", "run")
       ELSE pc' = "run_close" /\ UNCHANGED finv
    /\ UNCHANGED <<idx, cfgv, civv, spv, capv, obsv, navv, pickv, phases, buyv, nearv>>

\* context.close(); browser.close()
RunClose ==
    /\ pc = "run_close"
    /\ context_closed' = TRUE
    /\ \/ /\ browser_closed' = TRUE
          /\ pc' = "returned"
          /\ UNCHANGED <<exc, raised_in>>
       \/ \* context.close() failed
          /\ browser_closed' = browser_closed
          /\ pc' = "raised"
          /\ exc' = "Error"
          /\ raised_in' = "run"
    /\ UNCHANGED <<idx, cfgv, civv, spv, capv, obsv, navv, pickv, session_open, phases,
                   exit_status, buyv, nearv>>

-----------------------------------------------------------------------------
(* __main__ (lines 632-662)                                                *)

\* positions at which the process has left run or has ended
EndedPcs == {"returned", "raised", "exited"}

\* Ctrl-C while run executes: KeyboardInterrupt is not an Exception, so none of
\* the except Exception handlers of the flow catches it; it unwinds a running
\* click_if_visible on its way out of run
Interrupt ==
    /\ pc \notin EndedPcs
    /\ Raise("KeyboardInterrupt", "signal")
    /\ PopCiv
    /\ UNCHANGED <<idx, cfgv, spv, capv, obsv, navv, pickv, phases, buyv, nearv>>

\* except KeyboardInterrupt: sys.exit(130); except Exception: sys.exit(1);
\* falling off the end of the script is status 0
ExitStatus_InterruptIsFailure(e) == IF e = "none" THEN 0 ELSE 1
ExitStatus(e) == IF e = "none" THEN 0 ELSE IF e = "KeyboardInterrupt" THEN 130 ELSE 1

MainExit ==
    /\ pc \in {"returned", "raised"}
    /\ pc' = "exited"
    /\ exit_status' = ExitStatus(exc)
    /\ UNCHANGED <<idx, cfgv, civv, spv, capv, obsv, navv, pickv, phases,
                   exc, raised_in, session_open, context_closed, browser_closed, buyv, nearv>>

NoNavObs == [selected |-> FALSE, clicked |-> "none", marker |-> FALSE, read |-> "none"]

\* bounding_box() returned None, or raised (line 274: b = None)
NoBox == [x |-> -1, y |-> -1, width |-> 0, height |-> 0]

\* the state every specification starts from, but for pc and its own inputs
IdleFlow ==
    /\ idx = 0
    /\ ret_to = "" /\ civ_text = "" /\ civ_result = FALSE /\ civ_obs = NoCiv
    /\ wanted_digits = << >> /\ selects = << >> /\ price_clicks = << >>
    /\ qty_selected = NoSelection
    /\ user_code = << >> /\ target_input = 0 /\ captcha_img = "None"
    /\ crop_by_box = "None" /\ base = NoBase /\ captcha_focused = 0
    /\ asked = 0 /\ ocr_code = << >> /\ shots = 0 /\ lookups = 0 /\ ocr_calls = 0
    /\ recognized_from = "none" /\ elem_captured = FALSE /\ fills = 0
    /\ submits = << >> /\ tiers = NoTiers
    /\ nav_iter = 0 /\ progressed = FALSE /\ nav_obs = NoNavObs
    /\ best = << >>
    /\ exc = "none" /\ raised_in = "none" /\ session_open = FALSE
    /\ context_closed = FALSE /\ browser_closed = FALSE
    /\ phases = << >>
    /\ exit_status = -1
    /\ slept = -1 /\ buy_obs = NoBuyObs

Idle ==
    /\ IdleFlow
    /\ inp_box = NoBox /\ imgs = << >> /\ min_d = -1 /\ nearest = 0

-----------------------------------------------------------------------------
(* The purchase flow: __main__ calls run                                   *)

Init ==
    /\ pc = "run_launch"
    /\ price_text \in Prices
    /\ quantity \in Quantities
    /\ seconds \in SecondsSet
    /\ headless \in BOOLEAN
    \* lines 8-13: both imports succeed, or both names are None
    /\ \E imported \in BOOLEAN : pytesseract = imported /\ Image = imported
    /\ candidates = << >>
    /\ Idle

Next ==
    \/ RunLaunch \/ RunGoto \/ Dismiss \/ CivRole \/ CivText
    \/ WaitForUserPrepAndCountdown
    \/ DcbPrimary \/ DcbPrimaryRet \/ DcbWait \/ RunProgress
    \/ SpStart \/ SpHeader \/ SpSeat \/ SpAnyPrice \/ SpAdjacent \/ SpDirect
    \/ SpExcept \/ SpWait \/ SqSelects \/ SqScan \/ SqByValue \/ SqByLabel \/ SqReturn
    \/ FcStart \/ FcBeforeShot \/ FcFindInput \/ FcNearest \/ FcCapture \/ FcImgBox
    \/ FcFallbackRegion \/ FcFullShot \/ FcOcr \/ FcOcrExcept \/ FcNeedCode \/ FcFill
    \/ AgreeRole \/ AgreeLabel \/ AgreeFallback
    \/ FcEnter \/ FcLabels \/ FcLabelRet \/ FcTextTier \/ FcKeyword \/ FcDebug \/ FcForm
    \/ RunHold \/ RunClose \/ Interrupt \/ MainExit

Spec == Init /\ [][Next]_vars

-----------------------------------------------------------------------------
(* normalize_digits on its own: applied to a string, then to its own result *)

MaxNormLen == 3
NormAlphabet == {36, 44, 48, 50, 78}       \* $ , 0 2 N
NT2800 == <<78, 84, 36, 50, 44, 56, 48, 48>>     \* "NT$2,800"
NormInputs == UNION { [1..n -> NormAlphabet] : n \in 0..MaxNormLen } \cup {NT2800}

InitNorm ==
    /\ pc = "norm_start"
    /\ price_text \in NormInputs
    /\ quantity = 0
    /\ seconds = 0
    /\ headless = TRUE
    /\ pytesseract = FALSE /\ Image = FALSE
    /\ candidates = << >>
    /\ Idle

\* wanted_digits = normalize_digits(price_text)   (line 172)
Normalize ==
    /\ pc = "norm_start"
    /\ wanted_digits' = normalize_digits(price_text)
    /\ pc' = "normalized"
    /\ UNCHANGED <<idx, cfgv, civv, selects, price_clicks, qty_selected,
                   capv, obsv, navv, pickv, finv, phases, buyv, nearv>>

\* the function applied to its own result
NormalizeAgain ==
    /\ pc = "normalized"
    /\ wanted_digits' = normalize_digits(wanted_digits)
    /\ pc' = "normalized_twice"
    /\ UNCHANGED <<idx, cfgv, civv, selects, price_clicks, qty_selected,
                   capv, obsv, navv, pickv, finv, phases, buyv, nearv>>

NextNorm == Normalize \/ NormalizeAgain

SpecNorm == InitNorm /\ [][NextNorm]_vars

-----------------------------------------------------------------------------
(* The nearest-image loop (lines 264-282) on its own: any input box, any    *)
(* list of images                                                          *)

MaxImgs == 3
Boxes == { [x |-> bx, y |-> by, width |-> 20, height |-> h] :
             bx \in {0, 100}, by \in {0, 50}, h \in {10, 21} }
InputBoxes == { NoBox, [x |-> 50, y |-> 25, width |-> 20, height |-> 10] }
ImageLists == UNION { [1..n -> Boxes \cup {NoBox}] : n \in 0..MaxImgs }

\* lines 277-279: d2 = dx*dx + dy*dy between the centers.  The centers are
\* x + width / 2: all lengths are doubled here, which keeps them integral and
\* multiplies every d2 by 4
SquaredDistance(b, inp) ==
    LET dx == (2 * b.x + b.width) - (2 * inp.x + inp.width)
        dy == (2 * b.y + b.height) - (2 * inp.y + inp.height)
    IN dx * dx + dy * dy

\* line 280: if min_d is None or d2 < min_d   (min_d = -1 is None)
Closer_OrEqual(d2, least) == least = -1 \/ d2 <= least
Closer(d2, least) == least = -1 \/ d2 < least

InitNear ==
    /\ pc = "near_loop"
    /\ price_text = << >> /\ quantity = 0 /\ seconds = 0 /\ headless = TRUE
    /\ pytesseract = TRUE /\ Image = TRUE
    /\ candidates = << >>
    /\ IdleFlow
    /\ inp_box \in InputBoxes
    /\ imgs \in ImageLists
    /\ min_d = -1 /\ nearest = 0

\* lines 269-282, one image per step; idx images have been looked at
NearStep ==
    /\ pc = "near_loop"
    /\ idx < Len(imgs)
    /\ LET b == imgs[idx + 1] IN
       IF b = NoBox \/ inp_box = NoBox        \* if not b or not inp_box: continue
       THEN UNCHANGED <<min_d, nearest>>
       ELSE IF Closer(SquaredDistance(b, inp_box), min_d)
            THEN /\ min_d' = SquaredDistance(b, inp_box)
                 /\ nearest' = idx + 1
            ELSE UNCHANGED <<min_d, nearest>>
    /\ idx' = idx + 1
    /\ UNCHANGED <<pc, cfgv, civv, spv, capv, obsv, navv, pickv, finv, phases, buyv,
                   inp_box, imgs>>

\* the for loop has run out: captcha_img is the image at position nearest, or None
NearDone ==
    /\ pc = "near_loop"
    /\ idx = Len(imgs)
    /\ pc' = "near_done"
    /\ UNCHANGED <<idx, cfgv, civv, spv, capv, obsv, navv, pickv, finv, phases, buyv,
                   nearv>>

NextNear == NearStep \/ NearDone

SpecNear == InitNear /\ [][NextNear]_vars

-----------------------------------------------------------------------------
(* Step 8 of select_price_and_quantity on its own: any quantity, any page   *)

MaxQuantity == 2

InitQty ==
    /\ pc = "sp_wait"
    /\ price_text = << >>
    /\ quantity \in 0..MaxQuantity
    /\ seconds = 0
    /\ headless = TRUE
    /\ pytesseract = FALSE /\ Image = FALSE
    /\ candidates = << >>
    /\ Idle

NextQty == SpWait \/ SqSelects \/ SqScan \/ SqByValue \/ SqByLabel

SpecQty == InitQty /\ [][NextQty]_vars

-----------------------------------------------------------------------------
(* navigate_purchase_flow (lines 480-586)                                  *)

\* line 497: for _ in range(20)
MaxSteps == 20
MoreSteps_NoCap(done) == TRUE
MoreSteps(done) == done < MaxSteps

\* the head of the for loop; nav_iter counts the iterations begun
NavIter ==
    /\ pc = "nav_iter"
    /\ IF MoreSteps(nav_iter)
       THEN /\ nav_iter' = nav_iter + 1
            /\ pc' = "nav_selects"
            /\ progressed' = FALSE
            /\ nav_obs' = NoNavObs
       ELSE /\ pc' = "nav_returned"
            /\ UNCHANGED <<nav_iter, progressed, nav_obs>>
    /\ UNCHANGED <<idx, cfgv, civv, spv, capv, obsv, pickv, finv, phases, buyv, nearv>>

\* line 500: select_boxes = page.locator("select").all()   (failure: line 519)
NavSelects ==
    /\ pc = "nav_selects"
    /\ \/ \E page_selects \in SelectLists :
            /\ selects' = page_selects
            /\ idx' = 1
            /\ pc' = "nav_select_box"
       \/ /\ pc' = "nav_labels"
          /\ idx' = 1
          /\ selects' = << >>
    /\ UNCHANGED <<cfgv, civv, wanted_digits, price_clicks, qty_selected,
                   capv, obsv, navv, pickv, finv, phases, buyv, nearv>>

\* line 516: value and value not in ("", "0", "-1")
Placeholders == { << >>, <<48>>, <<45, 49>> }
Eligible(sel) == { i \in 1..Len(sel.values) :
                     sel.values[i] # None /\ sel.values[i] \notin Placeholders }

\* lines 501-518: per select box: skip it when disabled, else select the first
\* enabled option with a real value; a failing select_option ends the block
NavSelectBox ==
    /\ pc = "nav_select_box"
    /\ IF idx > Len(selects)
       THEN /\ pc' = "nav_labels"
            /\ idx' = 1
            /\ selects' = << >>
            /\ UNCHANGED nav_obs
       ELSE \/ \* disabled box, or every eligible option is disabled
               /\ pc' = "nav_select_box"
               /\ idx' = idx + 1
               /\ UNCHANGED <<selects, nav_obs>>
            \/ \E opt \in Eligible(selects[idx]), outcome \in {"selected", "failed"} :
                 IF outcome = "selected"
                 THEN /\ pc' = "nav_select_box"
                      /\ idx' = idx + 1
                      /\ nav_obs' = [nav_obs EXCEPT !.selected = TRUE]
                      /\ UNCHANGED selects
                 ELSE /\ pc' = "nav_labels"
                      /\ idx' = 1
                      /\ selects' = << >>
                      /\ UNCHANGED nav_obs
    /\ UNCHANGED <<cfgv, civv, wanted_digits, price_clicks, qty_selected,
                   capv, obsv, nav_iter, progressed, pickv, finv, phases, buyv, nearv>>

\* lines 524-537
AdvanceLabels == <<"JiaRuGouWuChe", "LiJiJieZhang", "XiaYiBu", "XiaYiBuZhou",
                   "WoTongYi", "WoYiYueDuBingTongYi", "QueRen", "QueDing", "SongChu",
                   "QianWangXiaYiBu", "TongYiBingJiXu", "WoYaoGouPiao">>

\* lines 523-538: progressed = False; for label in [...]: click_if_visible(.., 800)
NavLabels ==
    /\ pc = "nav_labels"
    /\ IF idx <= Len(AdvanceLabels)
       THEN CallCiv(AdvanceLabels[idx], "nav_label_ret")
       ELSE pc' = "nav_link" /\ UNCHANGED civv
    /\ UNCHANGED <<idx, cfgv, spv, capv, obsv, navv, pickv, finv, phases, buyv, nearv>>

\* lines 538-541: if click_if_visible(...): progressed = True; wait; break
NavLabelRet ==
    /\ pc = "nav_label_ret"
    /\ IF civ_result
       THEN /\ progressed' = TRUE
            /\ nav_obs' = [nav_obs EXCEPT !.clicked = "label"]
            /\ pc' = "nav_link"
            /\ idx' = idx
       ELSE /\ pc' = "nav_labels"
            /\ idx' = idx + 1
            /\ UNCHANGED <<progressed, nav_obs>>
    /\ PopCiv
    /\ UNCHANGED <<cfgv, spv, capv, obsv, nav_iter, pickv, finv, phases, buyv, nearv>>

\* lines 544-551: if not progressed: get_by_role("link", "XiaYiBu").first.click
NavLink ==
    /\ pc = "nav_link"
    /\ IF ~progressed
       THEN \E outcome \in {"clicked", "failed"} :
              IF outcome = "clicked"
              THEN progressed' = TRUE /\ nav_obs' = [nav_obs EXCEPT !.clicked = "link"]
              ELSE UNCHANGED <<progressed, nav_obs>>
       ELSE UNCHANGED <<progressed, nav_obs>>
    /\ pc' = "nav_buttons"
    /\ UNCHANGED <<idx, cfgv, civv, spv, capv, obsv, nav_iter, pickv, finv, phases, buyv, nearv>>

\* lines 554-568: if not progressed: the first button whose text holds one of
\* common_next_labels is clicked; any failure ends the block
NavButtons ==
    /\ pc = "nav_buttons"
    /\ IF ~progressed
       THEN \E outcome \in {"clicked", "no_match", "failed"} :
              IF outcome = "clicked"
              THEN progressed' = TRUE /\ nav_obs' = [nav_obs EXCEPT !.clicked = "button"]
              ELSE UNCHANGED <<progressed, nav_obs>>
       ELSE UNCHANGED <<progressed, nav_obs>>
    /\ pc' = "nav_check"
    /\ UNCHANGED <<idx, cfgv, civv, spv, capv, obsv, nav_iter, pickv, finv, phases, buyv, nearv>>

\* lines 571-586: body_text = page.content(); a success marker returns; a failed
\* read is ignored; then: if not progressed: break
\* line 581: if any(s in body_text for s in success_texts): return
ReturnsOnMarker_Never(found) == FALSE
ReturnsOnMarker(found) == found

\* line 585: if not progressed: break
StopsWhenStuck_Never(made_progress) == FALSE
StopsWhenStuck(made_progress) == ~made_progress

NavCheck ==
    /\ pc = "nav_check"
    /\ \E outcome \in {"marker", "no_marker", "failed"} :
         /\ nav_obs' = [nav_obs EXCEPT !.marker = (outcome = "marker"), !.read = outcome]
         /\ pc' = IF ReturnsOnMarker(outcome = "marker") THEN "nav_returned"
                  ELSE IF StopsWhenStuck(progressed) THEN "nav_returned"
                  ELSE "nav_iter"
    /\ UNCHANGED <<idx, cfgv, civv, spv, capv, obsv, nav_iter, progressed,
                   pickv, finv, phases, buyv, nearv>>

InitNav ==
    /\ pc = "nav_iter"
    /\ price_text = << >> /\ quantity = 0 /\ seconds = 0 /\ headless = TRUE
    /\ pytesseract = FALSE /\ Image = FALSE
    /\ candidates = << >>
    /\ Idle

NextNav ==
    \/ NavIter \/ NavSelects \/ NavSelectBox \/ NavLabels \/ NavLabelRet
    \/ CivRole \/ CivText \/ NavLink \/ NavButtons \/ NavCheck

\* one thread runs the function and every driver call returns or times out
SpecNav == InitNav /\ [][NextNav]_vars /\ WF_vars(NextNav)

-----------------------------------------------------------------------------
(* Candidate selection on its own: any list of recognized strings          *)

MaxCands == 3
MaxStrLen == 2
\* the characters "7" and "A"
Alphabet == {55, 65}
Strings == UNION { [1..n -> Alphabet] : n \in 0..MaxStrLen }
CandidateLists == UNION { [1..n -> Strings] : n \in 0..MaxCands }

InitPick ==
    /\ pc = "pick"
    /\ candidates \in CandidateLists
    /\ price_text = << >> /\ quantity = 0 /\ seconds = 0 /\ headless = TRUE
    /\ pytesseract = TRUE /\ Image = TRUE
    /\ Idle

\* line 345: user_code = max(candidates, key=lambda s: (len(s), s), default="")
Pick ==
    /\ pc = "pick"
    /\ best' = PickBest(candidates)
    /\ pc' = "picked"
    /\ UNCHANGED <<idx, cfgv, civv, spv, capv, obsv, navv, candidates, finv, phases, buyv, nearv>>

NextPick == Pick

SpecPick == InitPick /\ [][NextPick]_vars

-----------------------------------------------------------------------------
(* Properties                                                              *)

\* C1: navigate_purchase_flow begins at most 20 iterations, whatever the page does,
\* and it returns.
C1_AdvanceLoopBounded == [](nav_iter <= 20) /\ <>(pc = "nav_returned")

\* C1 witness: all 20 iterations ran, a click having succeeded in each, and the
\* function returned without ever seeing a success marker.
C1_Witness ==
    pc = "nav_returned" /\ nav_iter = 20 /\ progressed /\ ~nav_obs.marker

\* C2: no phase called by run raises when a lookup or action finds nothing or
\* times out, so the later phases always run.
C2_NoPhaseFailureFatal ==
    ~(pc = "raised" /\ raised_in \in PhaseNames /\ exc \notin OperatorAborts)

\* C3: click_if_visible returns a boolean and never raises: TRUE iff the role+name
\* click succeeded or, after that attempt failed, the exact-text click succeeded;
\* FALSE when neither strategy matched.
C3_ClickIfVisibleTotal ==
    /\ civ_result \in BOOLEAN
    /\ raised_in # "click_if_visible"
    /\ (pc \notin CivPcs /\ civ_obs.role # "none") =>
          /\ civ_result = (civ_obs.role = "ok" \/ civ_obs.text = "ok")
          /\ civ_obs.text # "none" => civ_obs.role = "fail"
          /\ ~civ_result => (civ_obs.role = "fail" /\ civ_obs.text = "fail")

\* C3 witness: click_if_visible has just returned FALSE after both strategies failed.
C3_Witness ==
    /\ pc \notin CivPcs
    /\ civ_obs.role = "fail" /\ civ_obs.text = "fail"
    /\ civ_result = FALSE

ControlActivated ==
    tiers.label # 0 \/ tiers.text = "clicked" \/ tiers.keyword = "clicked"
FormSubmitTried ==
    tiers.form \in {"button_clicked", "programmatic", "not_submitted", "evaluate_failed"}

\* C4: the confirmation fallbacks are strictly tiered: the keyword scan is tried
\* only if no confirmation label was clicked, and the form is submitted only if
\* neither the labels nor the keyword scan activated a control.
C4_StrictTiers ==
    /\ tiers.keyword # "none" => tiers.label = 0
    /\ FormSubmitTried => ~ControlActivated

\* C5: one execution of fill_captcha_and_confirm submits the captcha at most once
\* (Enter in the captcha field, a confirmation click, the form's submit button and a
\* programmatic submit each count).
C5_AtMostOneSubmission == Len(submits) <= 1

\* C6: recognition reads the captured captcha image element whenever one was
\* captured; the region left of the input is used only when no captcha image was
\* captured; a captured image is recognized even without a captcha input.
C6_RecognizesCapturedImage ==
    /\ (elem_captured /\ recognized_from # "none") => recognized_from = "element"
    /\ recognized_from = "input_left" => ~elem_captured
    /\ (elem_captured /\ pc = "fc_need_code") => recognized_from = "element"

CaptchaEntered == phases # << >> /\ phases[Len(phases)] = "captcha"
BeforePromptPcs == OcrStagePcs \cup {"fc_start", "fc_ocr_except", "fc_need_code"}
\* the prompt point of the captcha stage has been passed (an interrupt may have cut
\* the stage short before it)
AfterPrompt == CaptchaEntered /\ pc \notin BeforePromptPcs /\ raised_in # "signal"

\* C7: with no text-recognition engine the captcha stage takes no screenshot, looks
\* up no input or image and calls no recognition; the code is empty at once and the
\* next action is the operator prompt.
C7_NoEngineNoOcr ==
    (~pytesseract \/ ~Image) =>
        /\ pc \notin OcrStagePcs \cup {"fc_ocr_except"}
        /\ shots = 0 /\ lookups = 0 /\ ocr_calls = 0
        /\ pc = "fc_need_code" => user_code = << >>
        /\ AfterPrompt => asked = 1

\* C7 witness: without an engine the operator has been asked and the fill begins.
C7_Witness ==
    ~pytesseract /\ ~Image /\ pc = "fc_fill" /\ asked = 1 /\ user_code # << >>

\* C8: the operator is asked iff the OCR stage ended with an empty code, at most
\* once, before any fill or confirmation action; a raise out of
\* fill_captcha_and_confirm comes only from the operator aborting the prompt.
C8_OperatorAskedIffEmpty ==
    /\ asked <= 1
    /\ AfterPrompt => (asked = 1 <=> ocr_code = << >>)
    /\ (CaptchaEntered /\ pc \in BeforePromptPcs) =>
          (asked = 0 /\ fills = 0 /\ submits = << >> /\ tiers = NoTiers)
    /\ (pc = "raised" /\ raised_in = "fill_captcha_and_confirm") =>
          exc \in OperatorAborts

\* C8 witness: the engine is available, the OCR stage ended empty, the operator was
\* asked once and the code typed is being filled in.
C8_Witness ==
    /\ pytesseract /\ Image
    /\ pc = "fc_fill" /\ asked = 1 /\ ocr_code = << >> /\ user_code # << >>

\* lexicographic order stated by the first differing position
LexLess(a, b) ==
    \E k \in 0..Len(a) :
        /\ k <= Len(b)
        /\ \A j \in 1..k : a[j] = b[j]
        /\ \/ k = Len(a) /\ k < Len(b)
           \/ k < Len(a) /\ k < Len(b) /\ a[k + 1] < b[k + 1]

Reorderings(n) == { f \in [1..n -> 1..n] : \A i \in 1..n : \E j \in 1..n : f[j] = i }
Reordered(q, f) == [i \in 1..Len(q) |-> q[f[i]]]

\* C9: the winner is a member of the list of maximal length, the lexicographically
\* greatest among the longest; it does not depend on the order of the list; an
\* empty list or a list of empty strings yields the empty string.
C9_CandidateSelection ==
    pc = "picked" =>
        /\ candidates = << >> => best = << >>
        /\ candidates # << >> =>
              /\ best \in SeqToSet(candidates)
              /\ \A c \in SeqToSet(candidates) :
                    /\ Len(c) <= Len(best)
                    /\ Len(c) = Len(best) => ~LexLess(best, c)
        /\ \A f \in Reorderings(Len(candidates)) :
              PickBest(Reordered(candidates, f)) = best
        /\ (\A i \in 1..Len(candidates) : candidates[i] = << >>) => best = << >>

\* C9 witness: two different candidates of the greatest length, the smaller first.
C9_Witness ==
    /\ pc = "picked"
    /\ Len(candidates) >= 2
    /\ Len(candidates[1]) = Len(best) /\ candidates[1] # best /\ best # << >>

\* C10: whenever run ends without the operator aborting it, context.close and
\* browser.close were attempted, also when a phase raised.
C10_CleanupUnconditional ==
    (pc \in {"returned", "raised"} /\ exc \notin OperatorAborts /\ raised_in # "run")
        => (context_closed /\ browser_closed)

\* C11: the process ends with status 0 exactly when run returned, with 130 exactly
\* when a KeyboardInterrupt left run (at an operator prompt or anywhere else), and
\* with 1 exactly when any other exception left run; no other status occurs, and
\* no status is set before the process ends.
C11_ExitStatus ==
    IF pc = "exited"
    THEN /\ exit_status \in {0, 130, 1}
         /\ exit_status = 0 <=> (exc = "none" /\ context_closed /\ browser_closed)
         /\ exit_status = 130 <=> exc = "KeyboardInterrupt"
         /\ exit_status = 1 <=> exc \notin {"none", "KeyboardInterrupt"}
    ELSE exit_status = -1

\* C11 witness: the operator interrupts the captcha prompt and the process ends
\* with 130.
C11_Witness ==
    /\ pc = "exited"
    /\ exit_status = 130
    /\ raised_in = "fill_captcha_and_confirm"
    /\ asked = 1

\* the target string, and which controls of the page hold it
QtyTarget == IntToStr(quantity)
ValueMatch(c) == \E i \in 1..Len(c.values) : c.values[i] = QtyTarget
TextMatch(c) == \E i \in 1..Len(c.texts) : Strip(c.texts[i]) = QtyTarget
Step8Done == pc = "sq_return" /\ quantity > 0 /\ ~qty_selected.failed

DigitIdx(s) == { i \in 1..Len(s) : s[i] \in 48..57 }
DigitsOf(s) ==
    [k \in 1..Cardinality(DigitIdx(s)) |->
        s[CHOOSE i \in DigitIdx(s) : Cardinality({ j \in DigitIdx(s) : j <= i }) = k]]

\* C13: normalize_digits(s) is the subsequence of the digit characters of s in their
\* order, for every s; applying it to its own result changes nothing;
\* "NT$2,800" gives "2800" and the empty string gives the empty string.
C13_NormalizeDigits ==
    pc \in {"normalized", "normalized_twice"} =>
        /\ wanted_digits = DigitsOf(price_text)
        /\ price_text = NT2800 => wanted_digits = <<50, 56, 48, 48>>
        /\ price_text = << >> => wanted_digits = << >>

\* C13 witness: "NT$2,800" normalized twice is "2800".
C13_Witness ==
    /\ pc = "normalized_twice"
    /\ price_text = NT2800
    /\ wanted_digits = <<50, 56, 48, 48>>

PhaseOrder == <<"dismiss", "operator_setup", "buy", "select", "captcha">>
BuyAttempted == buy_obs.primary > 0 \/ buy_obs.alt > 0
CaptchaActed ==
    \/ asked > 0 \/ fills > 0 \/ shots > 0 \/ lookups > 0 \/ ocr_calls > 0
    \/ submits # << >> \/ tiers # NoTiers

\* C14: the phases start in the order dismiss, operator setup, buy click,
\* price/quantity selection, captcha-and-confirm, each at most once; a buy click is
\* attempted only after the operator confirmed and max(0, seconds) was slept; the
\* captcha stage acts only after price/quantity selection has returned.
C14_PhaseOrder ==
    /\ Len(phases) <= Len(PhaseOrder)
    /\ \A i \in 1..Len(phases) : phases[i] = PhaseOrder[i]
    /\ (BuyAttempted \/ Len(phases) >= 3) =>
          /\ Len(phases) >= 3
          /\ slept = (IF seconds > 0 THEN seconds ELSE 0)
    /\ Len(phases) < 3 => (slept = -1 /\ ~BuyAttempted)
    /\ CaptchaActed => Len(phases) = 5
    /\ Len(phases) < 5 => (price_clicks = << >> \/ Len(phases) = 4)

\* C14 witness: with a negative countdown nothing was slept, and all five phases
\* have started in order.
C14_Witness ==
    /\ pc = "fc_fill"
    /\ phases = PhaseOrder
    /\ seconds = -1 /\ slept = 0
    /\ asked = 1

\* C19: double_click_buy makes exactly two rounds; in a round the alternative label
\* is tried only if the primary click failed; each round ends with a 400 ms wait;
\* in all two to four click attempts and at most two successful clicks.
C19_TwoBuyRounds ==
    LET b == buy_obs IN
    /\ b.primary <= 2 /\ b.primary_ok <= b.primary /\ b.alt_ok <= b.alt
    /\ b.alt <= b.primary - b.primary_ok
    /\ \A i \in 1..Len(b.waits) : b.waits[i] = 400
    /\ pc = "dcb_primary" => (Len(b.waits) = b.primary /\ b.alt = b.primary - b.primary_ok)
    /\ pc = "run_progress" =>
          /\ b.primary = 2
          /\ b.waits = <<400, 400>>
          /\ b.primary + b.alt \in 2..4
          /\ b.primary_ok + b.alt_ok <= 2

\* C19 witness: the primary label failed in one round and the alternative was
\* clicked instead: three attempts, two clicks, two waits.
C19_Witness ==
    /\ pc = "run_progress"
    /\ buy_obs = [primary |-> 2, primary_ok |-> 1, alt |-> 1, alt_ok |-> 1,
                  waits |-> <<400, 400>>]

\* C15: when no confirmation label, text or keyword control could be clicked and the
\* page holds a form, fill_captcha_and_confirm has submitted that form by the time
\* it returns (by the submit button, else programmatically), and it does not raise.
C15_FormFallbackSubmits ==
    /\ (tiers.form \notin {"none", "no_form"} /\ ~ControlActivated) =>
          /\ tiers.form \in {"button_clicked", "programmatic"}
          /\ submits # << >>
          /\ submits[Len(submits)] \in {"form_button", "form_submit"}
    /\ (pc = "raised" /\ raised_in = "fill_captcha_and_confirm") => tiers = NoTiers

PriceStagePcs == {"sp_start", "sp_header", "sp_seat", "sp_any_price", "sp_adjacent",
                  "sp_direct", "sp_except", "sp_wait"}
SeatItemClicked == price_clicks # << >> /\ price_clicks[1] = "seat_first"

\* C16: when the category header of the target price exists and its first seat
\* item is clicked, that click is the only price click (no proximity, price-text
\* or digit click); the quantity is set after it whenever a choice control holds
\* the target and the driver does not fail; select_price_and_quantity does not
\* raise, and the captcha phase is entered with both selections made.
C16_SeatThenQuantityThenCaptcha ==
    /\ SeatItemClicked =>
          /\ price_clicks = <<"seat_first">>
          /\ price_text # << >>
          /\ raised_in # "select_price_and_quantity"
    /\ pc \in PriceStagePcs => qty_selected.sel = 0
    /\ (SeatItemClicked /\ Step8Done /\ \E i \in 1..Len(selects) : ValueMatch(selects[i]))
          => /\ qty_selected.sel # 0
             /\ ValueMatch(selects[qty_selected.sel]) => qty_selected.how = "value"
    /\ (SeatItemClicked /\ pc = "fc_start") => CaptchaEntered

\* C16 witness: price 2800, quantity 2: the seat item was the one price click,
\* value 2 was selected in the first control, and the captcha phase begins.
C16_Witness ==
    /\ pc = "fc_start"
    /\ price_text = <<50, 56, 48, 48>> /\ quantity = 2
    /\ price_clicks = <<"seat_first">>
    /\ qty_selected = [sel |-> 1, opt |-> 3, how |-> "value", failed |-> FALSE]
    /\ CaptchaEntered

\* an iteration of navigate_purchase_flow has ended and none is running
BetweenIterations == pc \in {"nav_iter", "nav_returned"} /\ nav_iter >= 1
NothingActivated == ~nav_obs.selected /\ nav_obs.clicked = "none"

\* C17: an iteration that activated no control (no option selected, no label, link
\* or button clicked) and found no success marker is the last one; another
\* iteration follows only an iteration that activated a control and found no marker.
C17_StopsWhenStuck ==
    /\ (BetweenIterations /\ NothingActivated /\ ~nav_obs.marker) => pc = "nav_returned"
    /\ (pc = "nav_iter" /\ nav_iter >= 1) =>
          (nav_obs.clicked # "none" /\ ~nav_obs.marker /\ nav_obs.read # "marker")
    /\ (pc = "nav_returned" /\ nav_iter < 20) => (nav_obs.marker \/ nav_obs.clicked = "none")

\* C17 witness: the second iteration activated nothing and found no marker, and the
\* function returned after it.
C17_Witness ==
    /\ pc = "nav_returned" /\ nav_iter = 2
    /\ nav_obs = [selected |-> FALSE, clicked |-> "none", marker |-> FALSE,
                  read |-> "no_marker"]

\* C18: when the content read finds a success marker the function has returned, in
\* that iteration, with nothing selected, clicked or read after it; a failed
\* content read counts as no marker and raises nothing.
C18_ReturnsOnMarker ==
    /\ nav_obs.marker <=> nav_obs.read = "marker"
    /\ nav_obs.marker => pc = "nav_returned"
    /\ nav_obs.read = "failed" =>
          /\ pc \in {"nav_iter", "nav_returned"}
          /\ pc = "nav_returned" => (nav_obs.clicked = "none" \/ nav_iter = 20)
          /\ pc = "nav_iter" => nav_obs.clicked # "none"
    /\ pc # "raised" /\ exc = "none"

\* C18 witness: the first iteration clicked a label, the second found a marker
\* after clicking a button, and the function returned with 18 iterations unused.
C18_Witness ==
    /\ pc = "nav_returned" /\ nav_iter = 2
    /\ nav_obs.marker /\ nav_obs.clicked = "button"

\* C20: the step10_confirm_not_found snapshot is written when no confirmation
\* control could be activated (the driver permitting), and no such file is written
\* in an execution in which a confirmation label was clicked.
C20_DebugOnlyOnFailure ==
    /\ tiers.label # 0 => tiers.debug # "written"
    /\ (tiers.keyword = "failed" /\ pc \notin {"fc_debug", "raised", "exited"})
          => tiers.debug # "none"

\* the OCR stage is running or has just ended: its candidates are still there
OcrRecordLive == pc \in OcrStagePcs \cup {"fc_ocr_except", "fc_need_code"}
GridPairs == { <<a, t>> : a \in {-6, -4, -2, 0, 2, 4, 6}, t \in {115, 160} }
PairsTried == { <<AngleOf(n), ThresholdOf(n)>> : n \in 1..Len(candidates) }
IsWinner(code, cands) ==
    /\ \E n \in 1..Len(cands) : cands[n] = code
    /\ \A n \in 1..Len(cands) :
          \/ Len(cands[n]) < Len(code)
          \/ Len(cands[n]) = Len(code) /\ (cands[n] = code \/ LexLess(cands[n], code))

\* C21: a code the OCR stage produces is the winner over the results of all 14
\* transforms, one recognition per pair of angle and threshold; once the region was
\* cropped the engine is called 14 times unless a call fails, and after a failed
\* call no winner of the results so far is taken: the code stays empty.
C21_WinnerOverAllTransforms ==
    OcrRecordLive =>
        /\ Len(candidates) <= 14 /\ ocr_calls \in {Len(candidates), Len(candidates) + 1}
        /\ PairsTried \subseteq GridPairs /\ Cardinality(PairsTried) = Len(candidates)
        /\ user_code # << >> =>
              /\ Len(candidates) = 14 /\ ocr_calls = 14 /\ PairsTried = GridPairs
              /\ IsWinner(user_code, candidates)
        /\ (pc = "fc_need_code" /\ base.from \in {"img_box", "input_left"}) =>
              \/ /\ Len(candidates) = 14 /\ ocr_calls = 14
                 /\ IsWinner(user_code, candidates)
              \/ /\ Len(candidates) < 14 /\ ocr_calls = Len(candidates) + 1
                 /\ user_code = << >>
        /\ (pc = "fc_need_code" /\ base.from \notin {"img_box", "input_left"}) =>
              (ocr_calls = 0 /\ user_code = << >>)

\* C21 witness: only the two upright transforms of the image read as text; the
\* code "A7" was chosen with all 14 results at hand.
C21_Witness ==
    /\ pc = "fc_need_code"
    /\ base.img = "upright_only"
    /\ Len(candidates) = 14 /\ ocr_calls = 14
    /\ user_code = <<65, 55>>

ConfirmOrder == <<"QueRenZhangShu", "QueRenShuLiang", "QueRen", "QueDing", "SongChu",
                  "XiaYiBu", "XiaYiBuZhou">>
LabelCallRunning ==
    pc = "fc_label_ret" \/ (pc \in CivPcs /\ ret_to = "fc_label_ret")

\* C22: the confirmation labels are attempted in the fixed order and the attempts
\* stop at the first click that succeeds: at most one label is clicked, none is
\* attempted after it, and a label is attempted only after all earlier ones failed.
C22_LabelsInOrderUntilFirstClick ==
    /\ Len(tiers.tried) <= 7
    /\ \A k \in 1..Len(tiers.tried) : tiers.tried[k] = ConfirmOrder[k]
    /\ tiers.clicks <= 1
    /\ tiers.clicks = 1 <=> tiers.label # 0
    /\ tiers.label # 0 => (tiers.label = Len(tiers.tried) /\ ~LabelCallRunning)
    /\ LabelCallRunning => (tiers.label = 0 /\ civ_text = tiers.tried[Len(tiers.tried)])
    /\ (tiers.text # "none" \/ tiers.keyword # "none") =>
          (tiers.label = 0 /\ Len(tiers.tried) = 7)

\* C22 witness: the first three labels failed, the fourth was clicked, and the
\* remaining three were never attempted.
C22_Witness ==
    /\ pc = "fc_debug"
    /\ tiers.label = 4 /\ tiers.clicks = 1
    /\ tiers.tried = <<"QueRenZhangShu", "QueRenShuLiang", "QueRen", "QueDing">>

\* four times the squared distance between the centers of an image and the input
CenterGap(b) ==
    ((2 * b.x + b.width) - (2 * inp_box.x + inp_box.width)) ^ 2
    + ((2 * b.y + b.height) - (2 * inp_box.y + inp_box.height)) ^ 2
Boxed == { i \in 1..Len(imgs) : imgs[i] # NoBox }

\* C23: when the input and at least one image have a bounding box, the image chosen
\* has a bounding box and the least distance between centers among the images that
\* have one, and it is the first such image in document order; an image without a
\* bounding box is never chosen.
C23_NearestImage ==
    /\ nearest # 0 => (nearest \in Boxed /\ inp_box # NoBox)
    /\ (pc = "near_done" /\ inp_box # NoBox /\ Boxed # {}) =>
          /\ nearest \in Boxed
          /\ \A j \in Boxed : CenterGap(imgs[nearest]) <= CenterGap(imgs[j])
          /\ \A j \in Boxed : j < nearest => CenterGap(imgs[nearest]) < CenterGap(imgs[j])
    /\ (pc = "near_done" /\ (inp_box = NoBox \/ Boxed = {})) => nearest = 0

\* C23 witness: the first image has no box, the second and third are different
\* images at the same distance from the input: the second is chosen.
C23_Witness ==
    /\ pc = "near_done" /\ Len(imgs) = 3
    /\ imgs[1] = NoBox /\ imgs[2] # NoBox /\ imgs[3] # NoBox /\ imgs[2] # imgs[3]
    /\ CenterGap(imgs[2]) = CenterGap(imgs[3])
    /\ nearest = 2

\* the fields fill was called on, in the order of the calls
FieldsTried == tiers.fields
GenericInput == Len(InputCandidates) + 1
EnterPressed == \E i \in 1..Len(submits) : submits[i] = "enter"
FillStageOver == CaptchaEntered /\ AfterPrompt /\ pc # "fc_fill"

\* C24: the code is written into at most one field and only when it is not empty:
\* the fields are tried in the order of the four descriptors and then the generic
\* first input, nothing is tried after the first fill that succeeds, the generic
\* input is reached only after the four descriptors failed, Enter is pressed only
\* on the field that was filled, and after an empty answer no field is tried.
C24_AtMostOneFill ==
    /\ fills <= 1
    /\ Len(FieldsTried) <= GenericInput
    /\ \A i \in 1..Len(FieldsTried) : FieldsTried[i] = i
    /\ FieldsTried # << >> => user_code # << >>
    /\ (fills = 1) <=> (captcha_focused # 0)
    /\ captcha_focused # 0 =>
          (pc # "fc_fill" /\ Len(FieldsTried) = captcha_focused)
    /\ (FillStageOver /\ user_code # << >> /\ captcha_focused = 0) =>
          Len(FieldsTried) = GenericInput
    /\ (FillStageOver /\ user_code = << >>) =>
          (asked = 1 /\ FieldsTried = << >> /\ fills = 0)
    /\ EnterPressed => captcha_focused # 0

\* C24 witness: the four descriptors failed, the generic first input took the code
\* and Enter was pressed on it.
C24_Witness ==
    /\ FieldsTried = <<1, 2, 3, 4, 5>>
    /\ captcha_focused = GenericInput /\ fills = 1
    /\ EnterPressed

====
